---- MODULE Spec2Model ----
(***************************************************************************)
(* Model of quickwit-actors/src/envelope.rs: one Envelope<A> built by      *)
(* wrap_in_envelope, the holder Option<(oneshot::Sender<A::Reply>, M)>     *)
(* behind the EnvelopeT<A> trait object, the reply channel and the         *)
(* scheduler guard.                                                        *)
(*                                                                         *)
(* Conventions: an Option<T> is a sequence of length 0 (None) or 1         *)
(* (Some(x)); a Box<dyn Any> is the record [type, val] (the TypeId and the *)
(* value); a String is a sequence of tokens.                               *)
(***************************************************************************)
EXTENDS Naturals, Sequences, FiniteSets

VARIABLES
    actor,                  \* the Counter actor's count (actor: &mut A)
    envState,               \* "unbuilt" | "alive" | "dropped"
    handler_envelope,       \* Envelope.handler_envelope: Option<(response_tx, msg)>
    no_advance_time_guard,  \* Envelope._no_advance_time_guard: "None" | "Some"
    future,                 \* locals of a suspended handle_message: Option<(response_tx, msg)>
    txState,                \* oneshot::Sender: "none" | "alive" | "sent" | "dropped"
    chanValue,              \* value stored in the oneshot channel: Option<Reply>
    rxState,                \* oneshot::Receiver: "none" | "waiting" | "resolved" | "dropped"
    rxResult,               \* what the receiver resolved to
    result,                 \* what the last handle_message call returned
    outcome,                \* what the handler returned in the last dispatch
    returned,               \* what the last message()/message_typed() returned
    debugOut,               \* the last Debug rendering of the envelope
    handlerCalls,           \* number of invocations of Handler::handle
    sends,                  \* number of values stored in the reply channel
    guardReleases,          \* number of times the scheduler guard was released
    built,                  \* the arguments wrap_in_envelope was called with
    lastOp,                 \* the last operation on the envelope
    lastPre,                \* holder state when lastOp began: "Loaded" | "Consumed"
    consumedBy,             \* the operation that emptied the holder
    rxAtDispatch            \* receiver state when the last dispatch began

vars == <<actor, envState, handler_envelope, no_advance_time_guard, future,
          txState, chanValue, rxState, rxResult, result, outcome, returned,
          debugOut, handlerCalls, sends, guardReleases, built, lastOp,
          lastPre, consumedBy, rxAtDispatch>>

(* ------------------------------ bounds --------------------------------- *)

MaxCount == 10
MaxAmount == 5
MaxCalls == 3

(* ------------------------------ values --------------------------------- *)

Increment(n) == [type |-> "Increment", val |-> n]

Unit == [type |-> "Unit", val |-> 0]

Messages == {Increment(n) : n \in 0..MaxAmount} \cup {Unit}

TypeParams == {"Increment", "Unit", "Other"}

ExitStatuses == {"Quit", "Failure"}

NoGuard == "None"

Guards == {"None", "Some"}

NoResult == [kind |-> "None", status |-> "-"]

Ok == [kind |-> "Ok", status |-> "-"]

Err(e) == [kind |-> "Err", status |-> e]

Panicked == [kind |-> "Panic", status |-> "-"]

NoOutcome == [kind |-> "None", status |-> "-", reply |-> 0]

NoReturn == [op |-> "none", req |-> "-", ret |-> <<>>]

NoBuild == [msg |-> Unit, guard |-> NoGuard]

NoConsumer == [op |-> "none", req |-> "-"]

Pending == [kind |-> "Pending", reply |-> 0]

Replied(v) == [kind |-> "Ok", reply |-> v]

RecvError == [kind |-> "RecvError", reply |-> 0]

HandlerChoices == {"Ok", "Panic"} \cup ExitStatuses

(* The holder's state as the design names it. *)
HolderState(slot) == IF slot /= <<>> THEN "Loaded" ELSE "Consumed"

(* ------------------------- text formatting ----------------------------- *)

Digits == <<"0", "1", "2", "3", "4", "5", "6", "7", "8", "9">>

RECURSIVE Decimal(_)
Decimal(n) ==
    IF n < 10 THEN <<Digits[n + 1]>>
    ELSE Decimal(n \div 10) \o <<Digits[(n % 10) + 1]>>

(* format!("{msg:?}") of a payload with a derived Debug. *)
FormatDebug(msg) ==
    IF msg.type = "Increment"
    THEN <<"Increment", "(">> \o Decimal(msg.val) \o <<")">>
    ELSE <<"(", ")">>

(* Fault: the marker is returned for a full slot, the payload for none.   *)
debug_msg_stale(slot) ==
    IF slot /= <<>> THEN <<"<consumed>">> ELSE <<"(", ")">>

(* EnvelopeT::debug_msg *)
debug_msg(slot) ==
    IF slot /= <<>> THEN FormatDebug(slot[1][2]) ELSE <<"<consumed>">>

(* impl fmt::Debug for Envelope<A>: debug_tuple("Envelope").field(&msg_str) *)
Envelope_fmt(slot) ==
    <<"Envelope", "(", "\"">> \o debug_msg(slot) \o <<"\"", ")">>

(* --------------------------- the holder -------------------------------- *)

(* Fault: the payload is read through a reference, the slot stays full.    *)
EnvelopeT_message_peek(slot, tx) ==
    IF slot /= <<>>
    THEN [ret |-> slot[1][2], slot |-> slot, tx |-> tx]
    ELSE [ret |-> Unit, slot |-> <<>>, tx |-> tx]

(* Fault: the sender taken out of the slot is kept alive, not discarded.   *)
EnvelopeT_message_leak(slot, tx) ==
    IF slot /= <<>>
    THEN [ret |-> slot[1][2], slot |-> <<>>, tx |-> tx]
    ELSE [ret |-> Unit, slot |-> <<>>, tx |-> tx]

(* Fault: an empty slot makes message() panic, as it makes handle_message. *)
EnvelopeT_message_expect(slot, tx) ==
    IF slot /= <<>>
    THEN [ret |-> slot[1][2], slot |-> <<>>, tx |-> "dropped"]
    ELSE [ret |-> [type |-> "Panic", val |-> 0], slot |-> <<>>, tx |-> tx]

(* EnvelopeT::message: self.take(), the sender of the pair is discarded.   *)
EnvelopeT_message(slot, tx) ==
    IF slot /= <<>>
    THEN [ret |-> slot[1][2], slot |-> <<>>, tx |-> "dropped"]
    ELSE [ret |-> Unit, slot |-> <<>>, tx |-> tx]

(* Fault: the box is cast to M without the TypeId check.                   *)
Envelope_message_typed_unchecked(boxed, M) ==
    <<boxed>>

(* Box<dyn Any>::downcast::<M> as used by Envelope::message_typed *)
Envelope_message_typed(boxed, M) ==
    IF boxed.type = M THEN <<boxed>> ELSE <<>>

(* Fault: the pair is cloned out of the slot instead of taken.             *)
EnvelopeT_take_peek(slot) ==
    IF slot /= <<>>
    THEN [panic |-> FALSE, taken |-> slot, slot |-> slot]
    ELSE [panic |-> TRUE, taken |-> <<>>, slot |-> <<>>]

(* Fault: an empty slot is skipped silently instead of panicking.          *)
EnvelopeT_take_silent(slot) ==
    [panic |-> FALSE, taken |-> slot, slot |-> <<>>]

(* EnvelopeT::handle_message, up to the call of the handler:               *)
(* self.take().expect("handle_message should never be called twice.")      *)
EnvelopeT_take(slot) ==
    IF slot /= <<>>
    THEN [panic |-> FALSE, taken |-> slot, slot |-> <<>>]
    ELSE [panic |-> TRUE, taken |-> <<>>, slot |-> <<>>]

(* Handler::handle of the Counter actor: Increment(n) replies count + n;   *)
(* the handler may also fail with an exit status or panic.                 *)
Handle(count, msg, choice) ==
    CASE choice = "Ok" -> [kind |-> "Ok", status |-> "-", reply |-> count + msg.val]
      [] choice = "Panic" -> [kind |-> "Panic", status |-> "-", reply |-> 0]
      [] OTHER -> [kind |-> "Err", status |-> choice, reply |-> 0]

(* oneshot::Sender::send: stores the value unless the receiver is gone.    *)
oneshot_send(rx, v) ==
    IF rx = "waiting"
    THEN [ok |-> TRUE, stored |-> <<v>>]
    ELSE [ok |-> FALSE, stored |-> <<>>]

(* Fault: the response is computed and never sent.                         *)
EnvelopeT_reply_unsent(o, rx) ==
    CASE o.kind = "Ok" ->
            [res |-> Ok, tx |-> "dropped", stored |-> <<>>]
      [] o.kind = "Err" ->
            [res |-> Err(o.status), tx |-> "dropped", stored |-> <<>>]
      [] OTHER ->
            [res |-> Panicked, tx |-> "dropped", stored |-> <<>>]

(* Fault: the SendError is unwrapped instead of ignored.                   *)
EnvelopeT_reply_unwrap(o, rx) ==
    CASE o.kind = "Ok" ->
            [res |-> IF oneshot_send(rx, o.reply).ok THEN Ok ELSE Panicked,
             tx |-> "sent", stored |-> oneshot_send(rx, o.reply).stored]
      [] o.kind = "Err" ->
            [res |-> Err(o.status), tx |-> "dropped", stored |-> <<>>]
      [] OTHER ->
            [res |-> Panicked, tx |-> "dropped", stored |-> <<>>]

(* Fault: a failed handler still answers, with a default reply.            *)
EnvelopeT_reply_default_on_err(o, rx) ==
    CASE o.kind = "Ok" ->
            [res |-> Ok, tx |-> "sent", stored |-> oneshot_send(rx, o.reply).stored]
      [] o.kind = "Err" ->
            [res |-> Err(o.status), tx |-> "sent", stored |-> oneshot_send(rx, 0).stored]
      [] OTHER ->
            [res |-> Panicked, tx |-> "dropped", stored |-> <<>>]

(* EnvelopeT::handle_message, from the handler's completion on:            *)
(* `actor.handle(msg, ctx).await?; let _ = response_tx.send(response);`    *)
EnvelopeT_reply(o, rx) ==
    CASE o.kind = "Ok" ->
            [res |-> Ok, tx |-> "sent", stored |-> oneshot_send(rx, o.reply).stored]
      [] o.kind = "Err" ->
            [res |-> Err(o.status), tx |-> "dropped", stored |-> <<>>]
      [] OTHER ->
            [res |-> Panicked, tx |-> "dropped", stored |-> <<>>]

(* Fault: the inner result is discarded (`let _ = ...await; Ok(())`).      *)
Envelope_handle_message_swallow(inner) ==
    CASE inner.kind = "Err" -> Ok
      [] inner.kind = "Ok" -> Ok
      [] OTHER -> inner

(* Envelope::handle_message: `self.handler_envelope.handle_message().await?; Ok(())` *)
Envelope_handle_message(inner) ==
    CASE inner.kind = "Err" -> Err(inner.status)
      [] inner.kind = "Ok" -> Ok
      [] OTHER -> inner

(* Fault: the guard is forgotten instead of dropped with the envelope.     *)
Envelope_drop_forget_guard(slot, guard, tx) ==
    [tx |-> IF slot /= <<>> THEN "dropped" ELSE tx,
     releases |-> 0]

(* Fault: the boxed holder is leaked, its sender is never dropped.         *)
Envelope_drop_leak_holder(slot, guard, tx) ==
    [tx |-> tx,
     releases |-> IF guard = "Some" THEN 1 ELSE 0]

(* Drop glue of Envelope: the boxed holder and the guard field are dropped. *)
Envelope_drop(slot, guard, tx) ==
    [tx |-> IF slot /= <<>> THEN "dropped" ELSE tx,
     releases |-> IF guard = "Some" THEN 1 ELSE 0]

Running == [kind |-> "Running", status |-> "-"]

Cancelled == [kind |-> "Cancelled", status |-> "-"]

(* ------------------------------ Init ----------------------------------- *)

Init ==
    /\ actor \in 0..MaxCount
    /\ envState = "unbuilt"
    /\ handler_envelope = <<>>
    /\ no_advance_time_guard = NoGuard
    /\ future = <<>>
    /\ txState = "none"
    /\ chanValue = <<>>
    /\ rxState = "none"
    /\ rxResult = Pending
    /\ result = NoResult
    /\ outcome = NoOutcome
    /\ returned = NoReturn
    /\ debugOut = <<>>
    /\ handlerCalls = 0
    /\ sends = 0
    /\ guardReleases = 0
    /\ built = NoBuild
    /\ lastOp = "none"
    /\ lastPre = "Consumed"
    /\ consumedBy = NoConsumer
    /\ rxAtDispatch = "none"

(* ----------------------------- actions --------------------------------- *)

(* wrap_in_envelope(msg, no_advance_time_guard) *)
wrap_in_envelope(msg, guard) ==
    /\ envState = "unbuilt"
    /\ envState' = "alive"
    /\ handler_envelope' = << <<"response_tx", msg>> >>
    /\ no_advance_time_guard' = guard
    /\ txState' = "alive"
    /\ rxState' = "waiting"
    /\ chanValue' = <<>>
    /\ built' = [msg |-> msg, guard |-> guard]
    /\ lastOp' = "wrap_in_envelope"
    /\ lastPre' = "Consumed"
    /\ UNCHANGED <<actor, future, rxResult, result, outcome, returned, debugOut,
                   handlerCalls, sends, guardReleases, consumedBy, rxAtDispatch>>

(* Envelope::message *)
message ==
    /\ envState = "alive"
    /\ future = <<>>
    /\ LET r == EnvelopeT_message(handler_envelope, txState) IN
        /\ handler_envelope' = r.slot
        /\ txState' = r.tx
        /\ returned' = [op |-> "message", req |-> "-", ret |-> <<r.ret>>]
    /\ lastOp' = "message"
    /\ lastPre' = HolderState(handler_envelope)
    /\ consumedBy' = IF handler_envelope /= <<>>
                     THEN [op |-> "message", req |-> "-"]
                     ELSE consumedBy
    /\ UNCHANGED <<actor, envState, no_advance_time_guard, future, chanValue,
                   rxState, rxResult, result, outcome, debugOut, handlerCalls,
                   sends, guardReleases, built, rxAtDispatch>>

(* Envelope::message_typed::<M> *)
message_typed(M) ==
    /\ envState = "alive"
    /\ future = <<>>
    /\ LET r == EnvelopeT_message(handler_envelope, txState) IN
        /\ handler_envelope' = r.slot
        /\ txState' = r.tx
        /\ returned' = [op |-> "message_typed", req |-> M,
                        ret |-> Envelope_message_typed(r.ret, M)]
    /\ lastOp' = "message_typed"
    /\ lastPre' = HolderState(handler_envelope)
    /\ consumedBy' = IF handler_envelope /= <<>>
                     THEN [op |-> "message_typed", req |-> M]
                     ELSE consumedBy
    /\ UNCHANGED <<actor, envState, no_advance_time_guard, future, chanValue,
                   rxState, rxResult, result, outcome, debugOut, handlerCalls,
                   sends, guardReleases, built, rxAtDispatch>>

(* Envelope::handle_message, from the call to the handler's first          *)
(* suspension: the slot is taken (or the call panics) and the handler is   *)
(* invoked with the payload.                                               *)
handle_message ==
    /\ envState = "alive"
    /\ future = <<>>
    /\ handlerCalls < MaxCalls
    /\ LET t == EnvelopeT_take(handler_envelope) IN
        /\ handler_envelope' = t.slot
        /\ future' = t.taken
        /\ result' = IF t.panic THEN Panicked ELSE Running
        /\ handlerCalls' = IF t.panic THEN handlerCalls ELSE handlerCalls + 1
        /\ outcome' = IF t.panic THEN outcome ELSE NoOutcome
        /\ consumedBy' = IF t.panic \/ handler_envelope = <<>>
                         THEN consumedBy
                         ELSE [op |-> "handle_message", req |-> "-"]
    /\ lastOp' = "handle_message"
    /\ lastPre' = HolderState(handler_envelope)
    /\ rxAtDispatch' = rxState
    /\ UNCHANGED <<actor, envState, no_advance_time_guard, txState, chanValue,
                   rxState, rxResult, returned, debugOut, sends, guardReleases,
                   built>>

(* The handler completes (Ok, Err or panic) and handle_message runs to its *)
(* end: the reply is sent, or the sender is dropped by the early return.   *)
handle_message_resume(choice) ==
    /\ envState = "alive"
    /\ future /= <<>>
    /\ LET o == Handle(actor, future[1][2], choice)
           r == EnvelopeT_reply(o, rxState)
       IN
        /\ outcome' = o
        /\ txState' = r.tx
        /\ chanValue' = IF r.stored /= <<>> THEN r.stored ELSE chanValue
        /\ sends' = sends + Len(r.stored)
        /\ result' = Envelope_handle_message(r.res)
    /\ future' = <<>>
    /\ UNCHANGED <<actor, envState, handler_envelope, no_advance_time_guard,
                   rxState, rxResult, returned, debugOut, handlerCalls,
                   guardReleases, built, lastOp, lastPre, consumedBy,
                   rxAtDispatch>>

(* Fault: the dropped future puts the pair back into the slot, so the      *)
(* message could be dispatched again.                                      *)
handle_message_cancel_restore ==
    /\ envState = "alive"
    /\ future /= <<>>
    /\ future' = <<>>
    /\ handler_envelope' = future
    /\ result' = Cancelled
    /\ UNCHANGED <<actor, envState, no_advance_time_guard, txState,
                   chanValue, rxState, rxResult, outcome, returned, debugOut,
                   handlerCalls, sends, guardReleases, built, lastOp, lastPre,
                   consumedBy, rxAtDispatch>>

(* The caller drops the handle_message future while the handler is         *)
(* suspended: its locals (response_tx, msg) are dropped.                   *)
handle_message_cancel ==
    /\ envState = "alive"
    /\ future /= <<>>
    /\ future' = <<>>
    /\ txState' = "dropped"
    /\ result' = Cancelled
    /\ UNCHANGED <<actor, envState, handler_envelope, no_advance_time_guard,
                   chanValue, rxState, rxResult, outcome, returned, debugOut,
                   handlerCalls, sends, guardReleases, built, lastOp, lastPre,
                   consumedBy, rxAtDispatch>>

(* Fault: the rendering takes the pair out of the slot itself instead of   *)
(* out of the temporary `self.as_ref()`, and drops it.                     *)
fmt_taking ==
    /\ envState = "alive"
    /\ future = <<>>
    /\ debugOut' = Envelope_fmt(handler_envelope)
    /\ handler_envelope' = <<>>
    /\ txState' = IF handler_envelope /= <<>> THEN "dropped" ELSE txState
    /\ lastOp' = "fmt"
    /\ lastPre' = HolderState(handler_envelope)
    /\ UNCHANGED <<actor, envState, no_advance_time_guard,
                   future, chanValue, rxState, rxResult, result,
                   outcome, returned, handlerCalls, sends, guardReleases, built,
                   consumedBy, rxAtDispatch>>

(* format!("{:?}", envelope) *)
fmt ==
    /\ envState = "alive"
    /\ future = <<>>
    /\ debugOut' = Envelope_fmt(handler_envelope)
    /\ lastOp' = "fmt"
    /\ lastPre' = HolderState(handler_envelope)
    /\ UNCHANGED <<actor, envState, handler_envelope, no_advance_time_guard,
                   future, txState, chanValue, rxState, rxResult, result,
                   outcome, returned, handlerCalls, sends, guardReleases, built,
                   consumedBy, rxAtDispatch>>

(* The envelope goes out of scope. *)
drop_envelope ==
    /\ envState = "alive"
    /\ future = <<>>
    /\ LET d == Envelope_drop(handler_envelope, no_advance_time_guard, txState) IN
        /\ txState' = d.tx
        /\ guardReleases' = guardReleases + d.releases
    /\ envState' = "dropped"
    /\ handler_envelope' = <<>>
    /\ no_advance_time_guard' = NoGuard
    /\ lastOp' = "drop"
    /\ lastPre' = HolderState(handler_envelope)
    /\ UNCHANGED <<actor, future, chanValue, rxState, rxResult, result, outcome,
                   returned, debugOut, handlerCalls, sends, built, consumedBy,
                   rxAtDispatch>>

(* The sender of the message awaits the receiver: it resolves once a value *)
(* is stored or the reply-sender is gone.                                  *)
rx_recv ==
    /\ rxState = "waiting"
    /\ chanValue /= <<>> \/ txState \in {"dropped", "sent"}
    /\ rxState' = "resolved"
    /\ rxResult' = IF chanValue /= <<>> THEN Replied(chanValue[1]) ELSE RecvError
    /\ UNCHANGED <<actor, envState, handler_envelope, no_advance_time_guard,
                   future, txState, chanValue, result, outcome, returned,
                   debugOut, handlerCalls, sends, guardReleases, built, lastOp,
                   lastPre, consumedBy, rxAtDispatch>>

(* The sender of the message drops the receiver without awaiting it. *)
rx_drop ==
    /\ rxState = "waiting"
    /\ rxState' = "dropped"
    /\ UNCHANGED <<actor, envState, handler_envelope, no_advance_time_guard,
                   future, txState, chanValue, rxResult, result, outcome,
                   returned, debugOut, handlerCalls, sends, guardReleases, built,
                   lastOp, lastPre, consumedBy, rxAtDispatch>>

Next ==
    \/ \E msg \in Messages, guard \in Guards : wrap_in_envelope(msg, guard)
    \/ message
    \/ \E M \in TypeParams : message_typed(M)
    \/ handle_message
    \/ \E choice \in HandlerChoices : handle_message_resume(choice)
    \/ handle_message_cancel
    \/ fmt
    \/ drop_envelope
    \/ rx_recv
    \/ rx_drop

Spec == Init /\ [][Next]_vars

(* The receiver's owner keeps polling it, and a handler that was invoked   *)
(* runs to completion.                                                     *)
FairSpec ==
    /\ Spec
    /\ WF_vars(rx_recv)
    /\ WF_vars(\E choice \in HandlerChoices : handle_message_resume(choice))

(* ------------------------------ claims --------------------------------- *)

(* A dispatch that found the holder Loaded has returned to its caller.     *)
DispatchReturned ==
    /\ lastOp = "handle_message"
    /\ lastPre = "Loaded"
    /\ future = <<>>
    /\ result /= Cancelled

(* C1: the handler is invoked at most once per envelope; a handle_message  *)
(* on a Loaded envelope invokes it exactly once and returns the handler's  *)
(* Ok/Err outcome; a handle_message on the envelope after that does not    *)
(* invoke it again.                                                        *)
C1_HandlerAtMostOnce ==
    /\ handlerCalls <= 1
    /\ (lastOp = "handle_message" /\ lastPre = "Loaded") => handlerCalls = 1
    /\ (DispatchReturned /\ outcome.kind \in {"Ok", "Err"}) =>
            /\ result.kind = outcome.kind
            /\ result.status = outcome.status
    /\ (lastOp = "handle_message" /\ lastPre = "Consumed"
            /\ consumedBy.op = "handle_message") =>
            /\ handlerCalls = 1
            /\ future = <<>>

C1_Witness ==
    /\ lastOp = "handle_message"
    /\ lastPre = "Consumed"
    /\ consumedBy.op = "handle_message"
    /\ outcome.kind = "Ok"
    /\ handlerCalls = 1

(* C2: handle_message on an envelope already Consumed by an earlier        *)
(* handle_message panics: it does not return Ok(()), does not invoke the   *)
(* handler and puts no second reply on the reply channel.                  *)
C2_SecondDispatchPanics ==
    (lastOp = "handle_message" /\ lastPre = "Consumed"
        /\ consumedBy.op = "handle_message") =>
        /\ result = Panicked
        /\ future = <<>>
        /\ handlerCalls = 1
        /\ sends <= 1
        /\ txState /= "alive"

C2_Witness ==
    /\ lastOp = "handle_message"
    /\ lastPre = "Consumed"
    /\ consumedBy.op = "handle_message"
    /\ result = Panicked
    /\ sends = 1
    /\ rxResult = Replied(15)

(* C3: for every payload m of every admissible type M, message_typed::<M>  *)
(* on the freshly built envelope returns Some(m), and a second             *)
(* message_typed::<M> on the same envelope returns None.                   *)
C3_TypedRoundTrip ==
    (lastOp = "message_typed" /\ returned.req = built.msg.type) =>
        /\ lastPre = "Loaded" => returned.ret = <<built.msg>>
        /\ (lastPre = "Consumed"
                /\ consumedBy = [op |-> "message_typed", req |-> built.msg.type]) =>
                returned.ret = <<>>

(* C4: when handle_message runs on a Loaded envelope, the handler returns  *)
(* Ok(r) and the receiver is still alive, the receiver yields exactly r,   *)
(* the handler's reply for the actor state and the payload given to        *)
(* wrap_in_envelope (Counter{count: 10} and Increment(5) yield 15).        *)
C4_ReceiverYieldsReply ==
    (DispatchReturned /\ outcome.kind = "Ok"
        /\ rxState \in {"waiting", "resolved"}) =>
        /\ outcome.reply = Handle(actor, built.msg, "Ok").reply
        /\ chanValue = <<outcome.reply>>
        /\ rxState = "resolved" => rxResult = Replied(outcome.reply)

C4_Witness ==
    /\ DispatchReturned
    /\ actor = 10
    /\ built.msg = Increment(5)
    /\ rxState = "resolved"
    /\ rxResult = Replied(15)

(* C5: handle_message returns Ok(()) exactly when the handler returned Ok, *)
(* and Err(e) with the same exit status e exactly when the handler         *)
(* returned Err(e).                                                        *)
C5_OutcomePropagated ==
    DispatchReturned =>
        /\ result = Ok <=> outcome.kind = "Ok"
        /\ \A e \in ExitStatuses :
                result = Err(e) <=> (outcome.kind = "Err" /\ outcome.status = e)

C5_Witness ==
    /\ DispatchReturned
    /\ outcome.kind = "Err"
    /\ outcome.status = "Failure"
    /\ result = Err("Failure")

(* C6: when the receiver was dropped before handle_message ran on a Loaded *)
(* envelope, the handler is still invoked and handle_message returns what  *)
(* it returns with a live receiver: the failed send is ignored.            *)
C6_DroppedReceiverIgnored ==
    (DispatchReturned /\ rxAtDispatch = "dropped") =>
        /\ handlerCalls = 1
        /\ outcome.kind /= "None"
        /\ outcome.kind = "Ok" => result = Ok
        /\ outcome.kind = "Err" => result = Err(outcome.status)
        /\ outcome.kind = "Panic" => result = Panicked
        /\ chanValue = <<>>
        /\ sends = 0

C6_Witness ==
    /\ DispatchReturned
    /\ rxAtDispatch = "dropped"
    /\ outcome.kind = "Ok"
    /\ result = Ok
    /\ txState = "sent"

(* The holder after each operation, and its steps once Consumed.          *)
C7_Inv ==
    /\ lastOp = "wrap_in_envelope" => HolderState(handler_envelope) = "Loaded"
    /\ lastOp \in {"message", "message_typed", "handle_message"} =>
            HolderState(handler_envelope) = "Consumed"

C7_Step ==
    (envState /= "unbuilt" /\ HolderState(handler_envelope) = "Consumed") =>
        HolderState(handler_envelope') = "Consumed"

(* C7: the holder goes one way: an envelope is built Loaded, message(),    *)
(* message_typed() and handle_message leave it Consumed, and a Consumed    *)
(* holder never becomes Loaded again.                                      *)
C7_OneWay == []C7_Inv /\ [][C7_Step]_vars

C7_Witness ==
    /\ envState = "alive"
    /\ lastOp = "message"
    /\ lastPre = "Consumed"
    /\ consumedBy.op = "handle_message"
    /\ HolderState(handler_envelope) = "Consumed"

(* C8: a scheduler guard given to wrap_in_envelope is held as long as the  *)
(* envelope exists, whatever was done with it, and is released exactly     *)
(* once, when the envelope is dropped.                                     *)
C8_GuardHeldUntilDrop ==
    /\ built.guard = "Some" =>
            /\ envState = "alive" =>
                    (no_advance_time_guard = "Some" /\ guardReleases = 0)
            /\ envState = "dropped" =>
                    (no_advance_time_guard = NoGuard /\ guardReleases = 1)
    /\ built.guard = NoGuard => guardReleases = 0

C8_Witness ==
    /\ built.guard = "Some"
    /\ envState = "dropped"
    /\ result.kind = "Err"
    /\ guardReleases = 1

(* The state left by the drop of an envelope that was still Loaded.       *)
DroppedLoaded == lastOp = "drop" /\ lastPre = "Loaded"

C9_Inv ==
    DroppedLoaded =>
        /\ envState = "dropped"
        /\ built.guard = "Some" => guardReleases = 1
        /\ no_advance_time_guard = NoGuard
        /\ txState = "dropped"
        /\ handlerCalls = 0
        /\ sends = 0
        /\ chanValue = <<>>
        /\ rxState = "resolved" => rxResult = RecvError

(* C9: dropping a Loaded envelope before any dispatch releases the guard   *)
(* and drops the reply-sender; the handler is never invoked for it, no     *)
(* reply is ever delivered, and a receiver that is awaited resolves to the *)
(* cancelled outcome.                                                      *)
C9_DropCancels ==
    /\ []C9_Inv
    /\ (DroppedLoaded /\ rxState = "waiting") ~> (rxState /= "waiting")

C9_Witness ==
    /\ DroppedLoaded
    /\ built.guard = "Some"
    /\ guardReleases = 1
    /\ rxState = "resolved"
    /\ rxResult = RecvError

(* The envelope will not be dispatched (again): the reply is decided.     *)
Settled ==
    \/ envState = "dropped"
    \/ envState = "alive" /\ handler_envelope = <<>> /\ future = <<>>

C10_Inv ==
    /\ rxResult.kind = "Ok" =>
            /\ consumedBy.op = "handle_message"
            /\ handlerCalls = 1
            /\ outcome.kind = "Ok"
            /\ rxResult.reply = outcome.reply
    /\ rxState = "resolved" <=> rxResult /= Pending
    /\ (Settled /\ rxState = "waiting") => txState \in {"sent", "dropped"}

(* C10: once the envelope has been dispatched to completion, extracted or  *)
(* dropped, a waiting receiver eventually resolves; it resolves to a reply *)
(* only if handle_message ran on the Loaded envelope and the handler       *)
(* returned Ok, and otherwise to the indication that no reply will come.   *)
C10_ReceiverResolves ==
    /\ []C10_Inv
    /\ (Settled /\ rxState = "waiting") ~> (rxState /= "waiting")

C10_Witness ==
    /\ Settled
    /\ consumedBy.op = "message_typed"
    /\ rxState = "resolved"
    /\ rxResult = RecvError

(* C11: over the whole life of an envelope at most one value is stored in  *)
(* its reply channel: exactly one once the sender was used by send with    *)
(* the receiver alive, none when the sender was dropped without sending.   *)
C11_AtMostOneValue ==
    /\ sends <= 1
    /\ Len(chanValue) = sends
    /\ sends = 1 => (txState = "sent" /\ outcome.kind = "Ok")
    /\ txState \in {"alive", "dropped"} => sends = 0

C11_Witness ==
    /\ sends = 1
    /\ lastOp = "handle_message"
    /\ lastPre = "Consumed"
    /\ result = Panicked
    /\ rxState = "waiting"

(* The Debug rendering of an envelope whose holder renders as `text`.      *)
EnvelopeDebugOf(text) == <<"Envelope", "(", "\"">> \o text \o <<"\"", ")">>

(* C12: the Debug rendering of an envelope contains the payload's Debug    *)
(* text as long as the holder is Loaded, and the fixed marker "<consumed>" *)
(* once it is Consumed, whether message(), message_typed() or              *)
(* handle_message consumed it.                                             *)
C12_DebugBeforeAndAfter ==
    lastOp = "fmt" =>
        /\ lastPre = "Loaded" =>
                /\ consumedBy = NoConsumer
                /\ debugOut = EnvelopeDebugOf(FormatDebug(built.msg))
        /\ lastPre = "Consumed" =>
                /\ consumedBy.op \in {"message", "message_typed", "handle_message"}
                /\ debugOut = EnvelopeDebugOf(<<"<consumed>">>)

C12_Witness ==
    /\ lastOp = "fmt"
    /\ lastPre = "Consumed"
    /\ consumedBy.op = "handle_message"
    /\ built.msg = Increment(5)
    /\ debugOut = <<"Envelope", "(", "\"", "<consumed>", "\"", ")">>

(* C13: message_typed::<N>() with a type N other than the payload's type   *)
(* on a Loaded envelope returns None; it does not fail.                    *)
C13_WrongTypeIsNone ==
    (lastOp = "message_typed" /\ lastPre = "Loaded"
        /\ returned.req /= built.msg.type) =>
        /\ returned.op = "message_typed"
        /\ returned.ret = <<>>
        /\ envState = "alive"

C13_Witness ==
    /\ lastOp = "message_typed"
    /\ lastPre = "Loaded"
    /\ built.msg = Increment(5)
    /\ returned.req = "Unit"
    /\ returned.ret = <<>>

(* The state of an envelope whose holder was emptied by message().         *)
C14_Inv ==
    consumedBy.op = "message" =>
        /\ handler_envelope = <<>>
        /\ txState = "dropped"
        /\ chanValue = <<>>
        /\ sends = 0
        /\ handlerCalls = 0
        /\ rxResult.kind /= "Ok"
        /\ rxState = "resolved" => rxResult = RecvError
        /\ lastOp = "handle_message" =>
                (lastPre = "Consumed" /\ result = Panicked /\ future = <<>>)

(* C14: message() on a Loaded envelope discards the reply-sender with the  *)
(* payload: the receiver resolves to the cancelled outcome, no reply is    *)
(* ever delivered, and a later handle_message on the envelope panics       *)
(* without invoking the handler.                                           *)
C14_MessageDiscardsSender ==
    /\ []C14_Inv
    /\ (consumedBy.op = "message" /\ rxState = "waiting") ~> (rxState /= "waiting")

C14_Witness ==
    /\ consumedBy.op = "message"
    /\ lastOp = "handle_message"
    /\ result = Panicked
    /\ rxState = "resolved"
    /\ rxResult = RecvError

(* The pair (response_tx, msg) built by wrap_in_envelope, as an Option.    *)
BuiltPair == << <<"response_tx", built.msg>> >>

(* C15: handle_message removes the payload and the reply-sender from the   *)
(* slot in one removal before the handler is invoked, so the holder is     *)
(* Consumed all the time the handler runs and the slot never holds only    *)
(* one of the two; the reply is sent only after the handler has completed. *)
C15_TakeThenHandleThenSend ==
    /\ envState = "alive" => handler_envelope \in {<<>>, BuiltPair}
    /\ future /= <<>> =>
            /\ future = BuiltPair
            /\ handler_envelope = <<>>
            /\ handlerCalls = 1
            /\ outcome = NoOutcome
            /\ result = Running
            /\ txState = "alive"
            /\ chanValue = <<>>
            /\ sends = 0
    /\ envState = "alive" =>
            (txState = "alive" <=> (handler_envelope /= <<>> \/ future /= <<>>))
    /\ (sends > 0 \/ txState = "sent") =>
            (outcome.kind = "Ok" /\ future = <<>> /\ handlerCalls = 1)

C15_Witness ==
    /\ future = BuiltPair
    /\ handler_envelope = <<>>
    /\ result = Running
    /\ rxState = "waiting"
    /\ built.msg = Increment(5)

(* What a Debug rendering leaves as it found it. *)
C16_Frame ==
    UNCHANGED <<actor, envState, handler_envelope, no_advance_time_guard,
                future, txState, chanValue, rxState, rxResult, result,
                outcome, returned, handlerCalls, sends, guardReleases, built,
                consumedBy, rxAtDispatch>>

C16_Inv ==
    lastOp = "fmt" =>
        /\ envState = "alive"
        /\ debugOut /= <<>>
        /\ HolderState(handler_envelope) = lastPre
        /\ no_advance_time_guard = built.guard
        /\ guardReleases = 0
        /\ lastPre = "Loaded" =>
                /\ handler_envelope = BuiltPair
                /\ txState = "alive"
                /\ chanValue = <<>>
                /\ handlerCalls = 0

(* C16: the Debug rendering is a pure observation: in either holder state  *)
(* it returns a text and leaves the holder, the reply channel and the      *)
(* guard unchanged, so a Loaded envelope is still Loaded and dispatchable  *)
(* after any number of renderings.                                         *)
C16_DebugIsPure == []C16_Inv /\ [][fmt => C16_Frame]_vars

C16_Witness ==
    /\ lastOp = "fmt"
    /\ lastPre = "Loaded"
    /\ debugOut = EnvelopeDebugOf(FormatDebug(Increment(5)))
    /\ handler_envelope = BuiltPair
    /\ txState = "alive"

(* C17: message() on a Consumed envelope returns the boxed unit value; it  *)
(* does not fail, can be repeated, and leaves the envelope Consumed.       *)
C17_MessageOnConsumed ==
    (lastOp = "message" /\ lastPre = "Consumed") =>
        /\ returned = [op |-> "message", req |-> "-", ret |-> <<Unit>>]
        /\ envState = "alive"
        /\ HolderState(handler_envelope) = "Consumed"
        /\ txState /= "alive"

C17_Witness ==
    /\ lastOp = "message"
    /\ lastPre = "Consumed"
    /\ consumedBy.op = "message"
    /\ built.msg = Increment(5)
    /\ returned.ret = <<Unit>>

(* C18: when the handler returns Err(e), handle_message sends nothing: the *)
(* reply-sender is dropped by the early return, the receiver resolves to   *)
(* the cancelled outcome and never to a reply, and the envelope is left    *)
(* Consumed.                                                               *)
C18_ErrSendsNothing ==
    outcome.kind = "Err" =>
        /\ future = <<>>
        /\ HolderState(handler_envelope) = "Consumed"
        /\ txState = "dropped"
        /\ sends = 0
        /\ chanValue = <<>>
        /\ rxResult.kind /= "Ok"
        /\ rxState = "resolved" => rxResult = RecvError
        /\ DispatchReturned => result = Err(outcome.status)

C18_Witness ==
    /\ outcome.kind = "Err"
    /\ outcome.status = "Quit"
    /\ result = Err("Quit")
    /\ rxState = "resolved"
    /\ rxResult = RecvError
    /\ envState = "alive"

(* The holder was emptied by a message_typed::<N>() of the wrong type N.   *)
ConsumedByWrongType ==
    /\ consumedBy.op = "message_typed"
    /\ consumedBy.req /= built.msg.type

(* C19: message_typed::<N>() with the wrong type N on a Loaded envelope    *)
(* returns None and still consumes the payload and drops the reply-sender: *)
(* a later message_typed::<M>() with the right type returns None, the      *)
(* Debug rendering is "<consumed>", and a later handle_message panics.     *)
C19_FailedExtractionConsumes ==
    ConsumedByWrongType =>
        /\ HolderState(handler_envelope) = "Consumed"
        /\ txState = "dropped"
        /\ handlerCalls = 0
        /\ (lastOp = "message_typed" /\ lastPre = "Loaded") => returned.ret = <<>>
        /\ (lastOp = "message_typed" /\ returned.req = built.msg.type) =>
                returned.ret = <<>>
        /\ lastOp = "fmt" => debugOut = EnvelopeDebugOf(<<"<consumed>">>)
        /\ lastOp = "handle_message" => (result = Panicked /\ future = <<>>)

(* The one dispatch of the envelope was abandoned: the handler was invoked *)
(* and the future is gone without the handler having completed.            *)
Abandoned ==
    /\ handlerCalls = 1
    /\ future = <<>>
    /\ outcome = NoOutcome

(* C20: when the handle_message future is dropped while the handler is     *)
(* suspended, the envelope stays Consumed, no reply is sent and the        *)
(* receiver resolves to the cancelled outcome; the message cannot be       *)
(* retried, a later handle_message on the envelope panics.                 *)
C20_AbandonedDispatch ==
    /\ result = Cancelled => Abandoned
    /\ Abandoned =>
            /\ HolderState(handler_envelope) = "Consumed"
            /\ consumedBy.op = "handle_message"
            /\ txState = "dropped"
            /\ sends = 0
            /\ chanValue = <<>>
            /\ rxResult.kind /= "Ok"
            /\ rxState = "resolved" => rxResult = RecvError
            /\ lastOp = "handle_message" =>
                    \/ lastPre = "Loaded" /\ result = Cancelled
                    \/ lastPre = "Consumed" /\ result = Panicked

C20_Witness ==
    /\ Abandoned
    /\ lastOp = "handle_message"
    /\ lastPre = "Consumed"
    /\ result = Panicked
    /\ rxState = "resolved"
    /\ rxResult = RecvError

====
